---- MODULE Spec2Model ----
(***************************************************************************)
(* Model of src/main.py: "Paamindelse om afregning af indsatser (voksne)". *)
(*                                                                         *)
(* Two invocations share one persistent work queue:                        *)
(*   main --queue : clear the "new" items, populate_queue, exit(0)         *)
(*   main         : process_workqueue, one item at a time                  *)
(*                                                                         *)
(* Time is counted in whole hours ("wall" = the civil clock reading).  An  *)
(* ISO timestamp is a record [wall, tz]; tz is "" for a string without an  *)
(* offset.  Non-ASCII letters of the source are transliterated (oe, ae).   *)
(***************************************************************************)
EXTENDS Integers, Sequences, FiniteSets, TLC

\* ------------------------------------------------------------------ bounds
MaxQueue == 2      \* items the queue holds at most
MaxWall  == 1      \* civil clock readings are 0..MaxWall
MaxHist  == 1      \* tasks in a grant's history that this process did not create

\* --------------------------------------------------------- program constants
proces_navn == "Paamindelse om afregning af indsatser (voksne)"
OpgaveType  == "Indsatser til oekonomi - voksne"
OpgaveTitel == "Indsats til oekonomi - voksne"
AnsvarligOrganisation == "Regnskab BSF"
Beskrivelse == "Opgave til registrering af indsats i oekonomi-systemet."
Aktiv       == "Aktiv"
Copenhagen  == "Europe/Copenhagen"
\* Python's None, and a value that may be None: None is <<>>, a value x is <<x>>
None        == <<>>
Some(x)     == <<x>>
\* utcoffset of ZoneInfo("Europe/Copenhagen") on the (winter) day modelled, in hours
CopenhagenOffset == 1

\* --------------------------------------------- rule configuration (Regler.xlsx)
\* regler["Organisationer"], regler["Irrelevante leverandoerer"]
Organisationer == <<"Org A", "Org B">>
IrrelevanteLeverandoerer == {"Udelukket A/S"}

\* ------------------------------------------------- the environment's data
Indsatser      == {42, 43}                       \* grant ids of the database
Leverandoerer  == {"Acme", "Udelukket A/S"}      \* supplier names Nexus reports
Walls          == 0..MaxWall
Zoner          == {"", "+00:00", "+01:00", "+02:00"}
Typer          == {OpgaveType, "Anden opgave"}
Tilstande      == {Aktiv, "Afsluttet"}
Mikrosekunder  == {500000}
Dage           == <<"2024-06-01", "2024-06-02">>   \* the days a run can see

business_key(id) == IF id = 42 THEN "010101-1234" ELSE "020202-5678"
name(id)         == IF id = 42 THEN "Bostoette" ELSE "Hjemmevejledning"

\* the hours at which the database can show a grant's last change: grant 42
\* changes at any hour, grant 43 changed once
aendringer(g) == IF g = 42 THEN Walls ELSE {0}

\* a row of get_modified_grants_by_organisation_name: last_state_change is a
\* datetime with a sub-second part
Raekker ==
    UNION { { [business_key |-> business_key(g), id |-> g, name |-> name(g),
               last_state_change |-> [wall |-> w, microsecond |-> m]] :
              w \in aendringer(g), m \in Mikrosekunder } : g \in Indsatser }

\* a task as hent_opgave_historik returns it. Nexus writes every timestamp of
\* one answer with the same offset tz ("": none)
Opgaver(tz) ==
    [type : [name : Typer], workflowState : [name : Tilstande],
     lastStateChangeDate : [wall : Walls, tz : {tz}]]

\* sequences over S of length at most n
RECURSIVE SeqUpTo(_, _)
SeqUpTo(S, n) ==
    IF n = 0 THEN {<<>>}
    ELSE LET shorter == SeqUpTo(S, n - 1)
         IN  shorter \cup { Append(s, x) : s \in {t \in shorter : Len(t) = n - 1}, x \in S }

\* ------------------------------------------------------------ datetime
\* a datetime is [wall, microsecond, tzinfo]; tzinfo is None, an offset or a zone

\* indsats["last_state_change"].strftime("%d-%m-%Y %H:%M:%S"): whole seconds of
\* the civil time, no sub-second part and no zone
strftime(dt) == [tekst |-> dt.wall]

\* datetime.strptime(s, "%d-%m-%Y %H:%M:%S"): a naive datetime
strptime(s) == [wall |-> s.tekst, microsecond |-> 0, tzinfo |-> None]

\* dateutil.parser.parse of an ISO string: aware when the string has an offset
parse(iso) ==
    [wall |-> iso.wall, microsecond |-> 0,
     tzinfo |-> IF iso.tz = "" THEN None ELSE Some(iso.tz)]

\* datetime.replace(tzinfo=...): the civil fields stay, the zone is overwritten
replace_tzinfo(dt, tz) == [dt EXCEPT !.tzinfo = Some(tz)]

\* hours east of UTC of an aware datetime's tzinfo
utcoffset(dt) ==
    CASE dt.tzinfo = Some(Copenhagen) -> CopenhagenOffset
      [] dt.tzinfo = Some("+00:00")   -> 0
      [] dt.tzinfo = Some("+01:00")   -> 1
      [] dt.tzinfo = Some("+02:00")   -> 2

\* a > b on datetimes: with the same tzinfo the civil fields are compared and
\* the zone is ignored, otherwise both are taken to UTC first
dt_gt(a, b) ==
    IF a.tzinfo = b.tzinfo
    THEN \/ a.wall > b.wall
         \/ a.wall = b.wall /\ a.microsecond > b.microsecond
    ELSE \/ a.wall - utcoffset(a) > b.wall - utcoffset(b)
         \/ a.wall - utcoffset(a) = b.wall - utcoffset(b) /\ a.microsecond > b.microsecond

\* -------------------------------------------------------- populate_queue
\* regler = get_excel_mapping()
get_excel_mapping ==
    [Organisationer |-> Organisationer,
     IrrelevanteLeverandoerer |-> IrrelevanteLeverandoerer]

\* a slip: the citizen's number as the item's reference
add_item_cpr(indsats) ==
    [data |-> [cpr |-> indsats.business_key,
               indsats_id |-> indsats.id,
               indsats_navn |-> indsats.name,
               sidste_aendring |-> strftime(indsats.last_state_change)],
     reference |-> indsats.business_key,
     status |-> "new",
     message |-> ""]

\* the item built from one database row, as workqueue.add_item stores it
add_item(indsats) ==
    [data |-> [cpr |-> indsats.business_key,
               indsats_id |-> indsats.id,
               indsats_navn |-> indsats.name,
               sidste_aendring |-> strftime(indsats.last_state_change)],
     reference |-> ToString(indsats.id),
     status |-> "new",
     message |-> ""]

\* the items of one organisation's rows, in order
RECURSIVE items_of(_)
items_of(rows) ==
    IF rows = <<>> THEN <<>>
    ELSE <<add_item(Head(rows))>> \o items_of(Tail(rows))

\* populate_queue: db[o] is what the database returns for organisation number o
RECURSIVE populate_from(_, _, _)
populate_from(wq, db, o) ==
    IF o > Len(get_excel_mapping.Organisationer) THEN wq
    ELSE populate_from(wq \o items_of(db[o]), db, o + 1)

\* a slip: the items already in the queue are put back to "new"
populate_queue_genaabner(wq, db) ==
    populate_from([i \in DOMAIN wq |-> [wq[i] EXCEPT !.status = "new"]], db, 1)

populate_queue(wq, db) == populate_from(wq, db, 1)

\* workqueue.clear_workqueue("new")
clear_workqueue(wq, status) == SelectSeq(wq, LAMBDA it : it.status # status)

\* ------------------------------------------------------ process_workqueue
VARIABLES
    queue,          \* the work queue: items with data, reference, status, message
    kald,           \* per queue item, the remote calls made for it and what they gave
    db,             \* what the database returned to the populate_queue that just ran
    pc,             \* where the running invocation stands; "idle" when none runs
    cur,            \* index of the item the for loop holds, 0 when none
    indsats,        \* local of process_workqueue: what hent_indsats returned
    opgaver,        \* local of opret_opgave: what hent_opgave_historik returned
    exc,            \* the exception in flight, None when there is none
    retur,          \* TRUE when the loop body executed "return None"
    nexusOpgaver,   \* the tasks this process has created in Nexus
    sporing,        \* the tracker's events: one entry per track_task call
    idag,           \* date.today(), as an index into Dage
    resultat,       \* how the last invocation ended
    argv,           \* sys.argv[1:] of the running (or last) invocation
    fejl            \* what that invocation's startup found missing, "ingen" if nothing

vars == <<queue, kald, db, pc, cur, indsats, opgaver, exc, retur,
          nexusOpgaver, sporing, idag, resultat, argv, fejl>>

Kald(navn, svar) == [kald |-> navn, svar |-> svar]

\* the item's data and the grant it names
item_data == queue[cur].data

\* a slip: a citizen that is not found raises like a missing pathway does
hent_indsats_rejser(data, nx) ==
    IF ~nx.borger \/ ~nx.visning
    THEN [exc |-> Some([type |-> "ValueError",
                        msg |-> "Kunne ikke finde -Alt for borger"]),
          value |-> None,
          kald |-> IF ~nx.borger
                   THEN <<Kald("hent_borger", "None")>>
                   ELSE <<Kald("hent_borger", "fundet"), Kald("hent_visning", "None")>>]
    ELSE IF data.indsats_id \notin nx.referencer
    THEN [exc |-> None, value |-> None,
          kald |-> <<Kald("hent_borger", "fundet"), Kald("hent_visning", "fundet"),
                     Kald("hent_referencer", "None")>>]
    ELSE [exc |-> None, value |-> Some([id |-> data.indsats_id]),
          kald |-> <<Kald("hent_borger", "fundet"), Kald("hent_visning", "fundet"),
                     Kald("hent_referencer", "fundet"), Kald("hent_indsats", "fundet")>>]

\* hent_indsats: nx holds what Nexus answers (borger and visning: found or
\* not, referencer: the grant ids under /*/*/Indsatser/basketGrantReference)
hent_indsats(data, nx) ==
    IF ~nx.borger
    THEN [exc |-> None, value |-> None,
          kald |-> <<Kald("hent_borger", "None")>>]
    ELSE IF ~nx.visning
    THEN [exc |-> Some([type |-> "ValueError",
                        msg |-> "Kunne ikke finde -Alt for borger"]),
          value |-> None,
          kald |-> <<Kald("hent_borger", "fundet"), Kald("hent_visning", "None")>>]
    ELSE IF data.indsats_id \notin nx.referencer
    THEN [exc |-> None, value |-> None,
          kald |-> <<Kald("hent_borger", "fundet"), Kald("hent_visning", "fundet"),
                     Kald("hent_referencer", "None")>>]
    ELSE [exc |-> None, value |-> Some([id |-> data.indsats_id]),
          kald |-> <<Kald("hent_borger", "fundet"), Kald("hent_visning", "fundet"),
                     Kald("hent_referencer", "fundet"), Kald("hent_indsats", "fundet")>>]

\* a slip: the excluded suppliers are not looked at
kontroller_leverandoer_alle(felt_vaerdier, regler) == felt_vaerdier # None

\* kontroller_leverandoer: felt_vaerdier is what hent_indsats_elementer gave,
\* None or the field values with the supplier's name
kontroller_leverandoer(felt_vaerdier, regler) ==
    IF felt_vaerdier = None THEN FALSE
    ELSE IF felt_vaerdier[1].supplier.supplier.name \in regler.IrrelevanteLeverandoerer
    THEN FALSE
    ELSE TRUE

\* lines 110-111: the item's change time, read as a civil time and given the zone
indsats_aendring(data) ==
    replace_tzinfo(strptime(data.sidste_aendring), Copenhagen)

\* lines 115-116: the task's change time, parsed and given the zone
opgave_aendring(opgave) ==
    replace_tzinfo(parse(opgave.lastStateChangeDate), Copenhagen)

\* a slip: the task's type is not looked at
daekker_alle_typer(opgave, data) ==
    \/ dt_gt(opgave_aendring(opgave), indsats_aendring(data))
    \/ opgave.workflowState.name = Aktiv

\* a slip: the workflow state is not looked at
daekker_uden_aktiv(opgave, data) ==
    /\ opgave.type.name = OpgaveType
    /\ dt_gt(opgave_aendring(opgave), indsats_aendring(data))

\* lines 118-120: this task of the history makes opret_opgave return early
daekker(opgave, data) ==
    /\ opgave.type.name = OpgaveType
    /\ \/ dt_gt(opgave_aendring(opgave), indsats_aendring(data))
       \/ opgave.workflowState.name = Aktiv

\* a slip: only the first task of the history is looked at
returnerer_tidligt_foerste(hist, data) ==
    /\ hist # None
    /\ hist[1] # <<>>
    /\ daekker(hist[1][1], data)

\* lines 113-121: the loop over the history returns None at the first task
\* that covers the item; hist is None or Some(list)
returnerer_tidligt(hist, data) ==
    /\ hist # None
    /\ \E k \in 1..Len(hist[1]) : daekker(hist[1][k], data)

\* lines 123-132: the task nexus.opgaver.opret_opgave is asked to create
ny_opgave(grant, dag) ==
    [objekt |-> grant.id,
     opgave_type |-> OpgaveType,
     titel |-> OpgaveTitel,
     ansvarlig_organisation |-> AnsvarligOrganisation,
     start_dato |-> dag,
     forfald_dato |-> dag,
     beskrivelse |-> Beskrivelse,
     ansvarlig_medarbejder |-> None]

\* a slip: the item is completed whatever happened
item_exit_fuldfoerer(item, e) ==
    [item EXCEPT !.status = "completed", !.message = "Completed"]

\* with item: the item's __exit__. An exception marks the item failed and
\* keeps propagating; otherwise an item still in progress is completed.
item_exit(item, e) ==
    IF e # None
    THEN [item EXCEPT !.status = "failed", !.message = e[1].msg]
    ELSE IF item.status = "in progress"
    THEN [item EXCEPT !.status = "completed", !.message = "Completed"]
    ELSE item

\* item.fail(str(e)), line 62
fail(item, msg) == [item EXCEPT !.status = "failed", !.message = msg]

\* a slip: the handler names another exception class
fanget_intet(e) == e # None /\ e[1].type = "WorkItemFejl"

\* except WorkItemError as e
fanget(e) == e # None /\ e[1].type = "WorkItemError"

\* ------------------------------------------------------------- Nexus
\* Nexus stamps a task it creates or closes with the current time. The runs
\* take place in the latest hour modelled, MaxWall o'clock in Copenhagen; the
\* stamp is that instant written with the offset tz ("": the civil time)
iso_offset(tz) ==
    CASE tz = ""       -> CopenhagenOffset
      [] tz = "+00:00" -> 0
      [] tz = "+01:00" -> 1
      [] tz = "+02:00" -> 2

nu(tz) == [wall |-> MaxWall - CopenhagenOffset + iso_offset(tz), tz |-> tz]

\* what this process created for a grant, as the history shows it
egne_opgaver(oprettede, g, tz) ==
    LET egne == SelectSeq(oprettede, LAMBDA t : t.objekt = g)
    IN  [k \in 1..Len(egne) |->
            [type |-> [name |-> egne[k].opgave_type],
             workflowState |-> [name |-> egne[k].workflowState],
             lastStateChangeDate |-> nu(tz)]]

\* nexus.opgaver.hent_opgave_historik: andre is what others put in the
\* grant's history (None when Nexus holds no list), followed by the tasks
\* this process created for the grant
hent_opgave_historik(oprettede, g, andre, tz) ==
    IF andre = None /\ egne_opgaver(oprettede, g, tz) = <<>> THEN None
    ELSE Some((IF andre = None THEN <<>> ELSE andre[1]) \o egne_opgaver(oprettede, g, tz))

\* what others may have left in a grant's history, by the offset Nexus writes
Historikker ==
    [tz \in Zoner |-> {None} \cup { Some(h) : h \in SeqUpTo(Opgaver(tz), MaxHist) }]

FeltVaerdier ==
    {None} \cup { Some([supplier |-> [supplier |-> [name |-> l]]]) : l \in Leverandoerer }

NexusSvar == [borger : BOOLEAN, visning : BOOLEAN, referencer : SUBSET Indsatser]

\* ---------------------------------------------------------------- main
\* the command lines: no flag, or --queue
Argv == {<<>>, <<"--queue">>}

\* what the startup (lines 158-169) can find missing: the rule file, a rule
\* file that loads, or one of the five credentials
Credentials ==
    <<"KMD Nexus - produktion", "KMD Nexus - database", "Xflow - produktion",
      "Odense SQL Server", "RoboA">>
Fejlkilder ==
    {"excel-file", "load_excel_mapping"} \cup { Credentials[k] : k \in DOMAIN Credentials }

\* a slip: the last credential is looked up only when it is used
opstart_uden_reporting(mangler) ==
    IF mangler = "excel-file" THEN "FileNotFoundError"
    ELSE IF mangler = "load_excel_mapping" THEN "load_excel_mapping failed"
    ELSE IF \E k \in 1..(Len(Credentials) - 1) : mangler = Credentials[k]
    THEN "get_credential failed"
    ELSE "ok"

\* lines 158-169: the exception the startup ends with, "ok" when it passes
opstart(mangler) ==
    IF mangler = "excel-file" THEN "FileNotFoundError"
    ELSE IF mangler = "load_excel_mapping" THEN "load_excel_mapping failed"
    ELSE IF \E k \in DOMAIN Credentials : mangler = Credentials[k]
    THEN "get_credential failed"
    ELSE "ok"

\* a slip: the flag is read the wrong way round
queue_mode_omvendt(args) == \A k \in DOMAIN args : args[k] # "--queue"

\* line 198: "--queue" in sys.argv
queue_mode(args) == \E k \in DOMAIN args : args[k] = "--queue"

\* ------------------------------------------------------------- actions
Init ==
    /\ queue = <<>>
    /\ kald = <<>>
    /\ db = <<>>
    /\ pc = "idle"
    /\ cur = 0
    /\ indsats = None
    /\ opgaver = None
    /\ exc = None
    /\ retur = FALSE
    /\ nexusOpgaver = <<>>
    /\ sporing = <<>>
    /\ idag = 1
    /\ resultat = "none"
    /\ argv = <<>>
    /\ fejl = "ingen"

\* main with --queue (lines 198-201): clear the new items, populate, exit(0)
KoerQueue ==
    /\ pc = "idle"
    /\ \E a \in Argv, m \in Fejlkilder \cup {"ingen"} :
         /\ opstart(m) = "ok"
         /\ queue_mode(a)
         /\ argv' = a
         /\ fejl' = m
    /\ LET ryddet == clear_workqueue(queue, "new")
           plads  == MaxQueue - Len(ryddet)
       IN  \E n1 \in 0..plads : \E n2 \in 0..(plads - n1) :
           \E r1 \in [1..n1 -> Raekker], r2 \in [1..n2 -> Raekker] :
              /\ queue' = populate_queue(ryddet, <<r1, r2>>)
              /\ db' = <<r1, r2>>
              /\ kald' = SubSeq(kald, 1, Len(ryddet)) \o [i \in 1..(n1 + n2) |-> <<>>]
    /\ resultat' = "exit(0)"
    /\ UNCHANGED <<pc, cur, indsats, opgaver, exc, retur, nexusOpgaver, sporing, idag>>

\* main without --queue (line 204): process_workqueue starts
StartProcess ==
    /\ pc = "idle"
    /\ \E a \in Argv, m \in Fejlkilder \cup {"ingen"} :
         /\ opstart(m) = "ok"
         /\ ~queue_mode(a)
         /\ argv' = a
         /\ fejl' = m
    /\ pc' = "iter"
    /\ resultat' = "running"
    /\ db' = <<>>
    /\ UNCHANGED <<queue, kald, cur, indsats, opgaver, exc, retur, nexusOpgaver,
                   sporing, idag>>

NyeItems == { i \in DOMAIN queue : queue[i].status = "new" }

\* for item in workqueue / with item (lines 45-46): the next new item
NextItem ==
    /\ pc = "iter"
    /\ NyeItems # {}
    /\ LET i == CHOOSE j \in NyeItems : \A k \in NyeItems : j <= k
       IN  /\ cur' = i
           /\ queue' = [queue EXCEPT ![i].status = "in progress"]
    /\ indsats' = None
    /\ opgaver' = None
    /\ exc' = None
    /\ retur' = FALSE
    /\ pc' = "hent_indsats"
    /\ UNCHANGED <<argv, fejl, db, kald, nexusOpgaver, sporing, idag, resultat>>

\* the for loop ends: the queue yields nothing more
LoopEnd ==
    /\ pc = "iter"
    /\ NyeItems = {}
    /\ pc' = "idle"
    /\ cur' = 0
    /\ resultat' = "drained"
    /\ UNCHANGED <<argv, fejl, db, queue, kald, indsats, opgaver, exc, retur, nexusOpgaver,
                   sporing, idag>>

\* lines 48-52
HentIndsats ==
    /\ pc = "hent_indsats"
    /\ \E nx \in NexusSvar :
         LET r == hent_indsats(item_data, nx)
         IN  /\ kald' = [kald EXCEPT ![cur] = @ \o r.kald]
             /\ exc' = r.exc
             /\ indsats' = r.value
             /\ retur' = (r.exc = None /\ r.value = None)
             /\ pc' = IF r.exc # None \/ r.value = None THEN "exit" ELSE "kontroller"
    /\ UNCHANGED <<argv, fejl, db, queue, cur, opgaver, nexusOpgaver, sporing, idag, resultat>>

\* lines 54-57
KontrollerLeverandoer ==
    /\ pc = "kontroller"
    /\ \E f \in FeltVaerdier :
         /\ kald' = [kald EXCEPT ![cur] = Append(@,
                Kald("hent_indsats_elementer",
                     IF f = None THEN "None" ELSE f[1].supplier.supplier.name))]
         /\ pc' = IF kontroller_leverandoer(f, get_excel_mapping) THEN "opret" ELSE "exit"
    /\ UNCHANGED <<argv, fejl, db, queue, cur, indsats, opgaver, exc, retur, nexusOpgaver, sporing,
                   idag, resultat>>

\* a slip: track_task is called on the early return too
opret_opgave_sporer_altid(tidligt) ==
    IF tidligt
    THEN /\ kald' = [kald EXCEPT ![cur] =
                       Append(@, Kald("hent_opgave_historik", "fundet"))]
         /\ pc' = "track"
         /\ UNCHANGED nexusOpgaver
    ELSE /\ kald' = [kald EXCEPT ![cur] =
                       @ \o <<Kald("hent_opgave_historik", "fundet"),
                              Kald("opret_opgave", "oprettet")>>]
         /\ pc' = "track"
         /\ nexusOpgaver' = Append(nexusOpgaver,
                [felt \in {"workflowState", "item"} |->
                    IF felt = "item" THEN cur ELSE Aktiv]
                @@ ny_opgave(indsats[1], Dage[idag]))

\* lines 110-132 of opret_opgave, hist being what line 109 fetched: return
\* early, or ask Nexus to create the task (Nexus creates it in state Aktiv)
opret_opgave(tidligt) ==
    IF tidligt
    THEN /\ kald' = [kald EXCEPT ![cur] =
                       Append(@, Kald("hent_opgave_historik", "fundet"))]
         /\ pc' = "exit"
         /\ UNCHANGED nexusOpgaver
    ELSE /\ kald' = [kald EXCEPT ![cur] =
                       @ \o <<Kald("hent_opgave_historik", "fundet"),
                              Kald("opret_opgave", "oprettet")>>]
         /\ pc' = "track"
         /\ nexusOpgaver' = Append(nexusOpgaver,
                [felt \in {"workflowState", "item"} |->
                    IF felt = "item" THEN cur ELSE Aktiv]
                @@ ny_opgave(indsats[1], Dage[idag]))

\* line 59, lines 108-132: the history fetch, the loop over it, the creation
\* call. The local opgaver is gone when opret_opgave has returned.
OpretOpgave ==
    /\ pc = "opret"
    /\ \E tidligt \in
           UNION { { returnerer_tidligt(
                         hent_opgave_historik(nexusOpgaver, indsats[1].id, andre, tz),
                         item_data) : andre \in Historikker[tz] } : tz \in Zoner } :
         opret_opgave(tidligt)
    /\ UNCHANGED <<argv, fejl, db, queue, cur, indsats, opgaver, exc, retur, sporing, idag, resultat>>

\* line 134
TrackTask ==
    /\ pc = "track"
    /\ sporing' = Append(sporing, [proces |-> proces_navn, item |-> cur])
    /\ pc' = "exit"
    /\ UNCHANGED <<argv, fejl, db, queue, kald, cur, indsats, opgaver, exc, retur, nexusOpgaver,
                   idag, resultat>>

\* lines 60-62 and the end of "with item": a WorkItemError is caught and the
\* item failed; any other exception leaves process_workqueue; "return None"
\* leaves it too; otherwise the loop goes on
ItemExit ==
    /\ pc = "exit"
    /\ IF fanget(exc)
       THEN /\ queue' = [queue EXCEPT ![cur] = item_exit(fail(@, exc[1].msg), None)]
            /\ pc' = "iter"
            /\ UNCHANGED resultat
       ELSE /\ queue' = [queue EXCEPT ![cur] = item_exit(@, exc)]
            /\ pc' = IF exc # None \/ retur THEN "idle" ELSE "iter"
            /\ resultat' = IF exc # None THEN "raised"
                           ELSE IF retur THEN "returned" ELSE resultat
    /\ cur' = IF pc' = "idle" THEN 0 ELSE cur
    /\ indsats' = None
    /\ opgaver' = None
    /\ exc' = None
    /\ retur' = FALSE
    /\ UNCHANGED <<argv, fejl, db, kald, nexusOpgaver, sporing, idag>>

\* a caseworker closes a task in Nexus
LukOpgave ==
    /\ \E k \in DOMAIN nexusOpgaver :
         /\ nexusOpgaver[k].workflowState = Aktiv
         /\ nexusOpgaver' = [nexusOpgaver EXCEPT ![k].workflowState = "Afsluttet"]
    /\ UNCHANGED <<argv, fejl, db, queue, kald, pc, cur, indsats, opgaver, exc, retur, sporing,
                   idag, resultat>>

\* lines 158-169: the startup raises; the process ends before line 197.
\* A failed startup changes nothing but what it records here, so the
\* invocations that follow it are the ones that follow the state before it;
\* behaviours are followed up to the first failed startup
OpstartFejler ==
    /\ pc = "idle"
    /\ \E a \in Argv, m \in Fejlkilder \cup {"ingen"} :
         /\ opstart(m) # "ok"
         /\ argv' = a
         /\ fejl' = m
         /\ resultat' = opstart(m)
    /\ db' = <<>>
    /\ pc' = "fejlet"
    /\ UNCHANGED <<queue, kald, cur, indsats, opgaver, exc, retur, nexusOpgaver,
                   sporing, idag>>

Next ==
    \/ KoerQueue
    \/ StartProcess
    \/ NextItem
    \/ LoopEnd
    \/ HentIndsats
    \/ KontrollerLeverandoer
    \/ OpretOpgave
    \/ TrackTask
    \/ ItemExit
    \/ LukOpgave

Spec == Init /\ [][Next]_vars

\* The call the item is about to make, by program position
NaesteKald ==
    [p \in {"hent_indsats", "kontroller", "opret"} |->
        IF p = "hent_indsats" THEN "hent_borger"
        ELSE IF p = "kontroller" THEN "hent_indsats_elementer"
        ELSE "hent_opgave_historik"]

WorkItemErrorTekst == "Nexus afviste kaldet"

\* lines 47-59: a call made for the item raises WorkItemError. No line of
\* src/main.py raises it; the handler at line 60 is there for the libraries
\* that main.py calls.
WorkItemErrorRejst ==
    /\ pc \in DOMAIN NaesteKald
    /\ kald' = [kald EXCEPT ![cur] = Append(@, Kald(NaesteKald[pc], "WorkItemError"))]
    /\ exc' = Some([type |-> "WorkItemError", msg |-> WorkItemErrorTekst])
    /\ pc' = "exit"
    /\ UNCHANGED <<argv, fejl, db, queue, cur, indsats, opgaver, retur, nexusOpgaver,
                   sporing, idag, resultat>>

\* lines 109-132: the history does not cover the item and the creation call
\* itself raises WorkItemError: no task, and line 134 is not reached. (If
\* any history gets past the loop, the one with nothing from others does.)
OpretOpgaveRejser ==
    /\ pc = "opret"
    /\ FALSE \in
           { returnerer_tidligt(
                 hent_opgave_historik(nexusOpgaver, indsats[1].id, None, tz),
                 item_data) : tz \in Zoner }
    /\ kald' = [kald EXCEPT ![cur] =
                  @ \o <<Kald("hent_opgave_historik", "fundet"),
                         Kald("opret_opgave", "WorkItemError")>>]
    /\ exc' = Some([type |-> "WorkItemError", msg |-> WorkItemErrorTekst])
    /\ pc' = "exit"
    /\ UNCHANGED <<argv, fejl, db, queue, cur, indsats, opgaver, retur, nexusOpgaver,
                   sporing, idag, resultat>>

\* the invocations together with the calls that raise WorkItemError
FejlNext ==
    \/ WorkItemErrorRejst
    \/ OpretOpgaveRejser
    \/ Next

FejlSpec == Init /\ [][FejlNext]_vars

\* the invocations together with the startups that fail
MainNext ==
    \/ OpstartFejler
    \/ Next

MainSpec == Init /\ [][MainNext]_vars

\* ------------------------------------------- opret_opgave on a fetched history
\* The second specification starts where line 109 has returned: one item is in
\* progress, its grant is resolved, its supplier was accepted, and opgaver holds
\* the fetched history (one entry more than the runs of Spec are given).
HentedeHistorikker ==
    UNION { {None} \cup { Some(h) : h \in SeqUpTo(Opgaver(tz), MaxHist + 1) } : tz \in Zoner }

OpretInit ==
    /\ \E r \in Raekker :
         /\ queue = <<[add_item(r) EXCEPT !.status = "in progress"]>>
         /\ db = <<>>
         /\ kald = << hent_indsats(add_item(r).data,
                          [borger |-> TRUE, visning |-> TRUE, referencer |-> {r.id}]).kald
                      \o <<Kald("hent_indsats_elementer", "Acme")>> >>
         /\ indsats = Some([id |-> r.id])
    /\ opgaver \in HentedeHistorikker
    /\ pc = "hentet"
    /\ cur = 1
    /\ exc = None
    /\ retur = FALSE
    /\ nexusOpgaver = <<>>
    /\ sporing = <<>>
    /\ idag \in DOMAIN Dage
    /\ resultat = "running"
    /\ argv = <<>>
    /\ fejl = "ingen"

\* lines 110-132 on the history held in opgaver
OpretEfterHentning ==
    /\ pc = "hentet"
    /\ opret_opgave(returnerer_tidligt(opgaver, item_data))
    /\ UNCHANGED <<argv, fejl, db, queue, cur, indsats, opgaver, exc, retur, sporing, idag, resultat>>

OpretNext ==
    \/ OpretEfterHentning
    \/ TrackTask
    \/ ItemExit
    \/ LoopEnd

OpretSpec == OpretInit /\ [][OpretNext]_vars

\* =================================================================== claims
\* the instant (hours, UTC) an ISO timestamp denotes; one without an offset is
\* a Copenhagen civil time
Instant(iso) == iso.wall - iso_offset(iso.tz)
\* the instant the item's change time denotes, read as Copenhagen civil time
ItemInstant(data) == data.sidste_aendring.tekst - CopenhagenOffset

HarKald(i, navn) == \E k \in DOMAIN kald[i] : kald[i][k].kald = navn
HarSvar(i, navn, svar) == \E k \in DOMAIN kald[i] : kald[i][k] = Kald(navn, svar)
OpgaverFor(i) == { k \in DOMAIN nexusOpgaver : nexusOpgaver[k].item = i }
SporingFor(i) == { k \in DOMAIN sporing : sporing[k].item = i }
Sentinel(t) == t.type.name = OpgaveType

\* the run of process_workqueue has ended
RunEnded == pc = "idle" /\ resultat \in {"drained", "returned", "raised"}
LaterItemsHandled(i) == \A j \in DOMAIN queue : j > i => queue[j].status # "new"

\* opret_opgave has worked through the history held in opgaver
Afgjort == pc \in {"track", "exit"} /\ HarKald(cur, "hent_opgave_historik")
Historik == IF opgaver = None THEN <<>> ELSE opgaver[1]

\* the new items are the tail of the queue, so an item keeps its index
NyeSidst ==
    \A i, j \in DOMAIN queue : (i < j /\ queue[i].status = "new") => queue[j].status = "new"

\* C1: a run of process_workqueue handles every item of the queue: when the
\* run has ended, no item after one that was skipped softly (citizen not found,
\* grant reference not found) is left unprocessed.
C1_SoftSkipKeepsDraining ==
    \A i \in DOMAIN queue :
        ( /\ RunEnded
          /\ \/ HarSvar(i, "hent_borger", "None")
             \/ HarSvar(i, "hent_referencer", "None") )
        => LaterItemsHandled(i)

\* C2: an item whose pathway fetch returned none ends failed with a message,
\* has no task, and the run goes on to the items after it.
C2_MissingPathwayFailsItemOnly ==
    \A i \in DOMAIN queue :
        HarSvar(i, "hent_visning", "None") =>
            /\ OpgaverFor(i) = {}
            /\ (i # cur => queue[i].status = "failed" /\ queue[i].message # "")
            /\ (RunEnded => LaterItemsHandled(i))

\* C3: when the fetched history holds a sentinel-type task whose change instant
\* is strictly after the item's change instant, opret_opgave creates no task
\* and raises nothing.
C3_LaterTaskSuppresses ==
    ( /\ Afgjort
      /\ \E k \in DOMAIN Historik :
            /\ Sentinel(Historik[k])
            /\ Instant(Historik[k].lastStateChangeDate) > ItemInstant(item_data) )
    => /\ pc = "exit"
       /\ exc = None
       /\ OpgaverFor(cur) = {}

\* C4: when the fetched history holds a sentinel-type task in state Aktiv, at
\* any position and with any change time, no task is created for the item.
C4_AktivSuppresses ==
    ( /\ Afgjort
      /\ \E k \in DOMAIN Historik :
            Sentinel(Historik[k]) /\ Historik[k].workflowState.name = Aktiv )
    => /\ pc = "exit"
       /\ OpgaverFor(cur) = {}
       /\ ~HarKald(cur, "opret_opgave")

\* C4's case: an Aktiv sentinel task changed before the item, second in a
\* history whose first task does not cover the item; the item is suppressed
C4_Witness ==
    /\ Afgjort
    /\ pc = "exit"
    /\ Len(Historik) = 2
    /\ ~Sentinel(Historik[1])
    /\ Sentinel(Historik[2])
    /\ Historik[2].workflowState.name = Aktiv
    /\ Instant(Historik[2].lastStateChangeDate) < ItemInstant(item_data)
    /\ OpgaverFor(cur) = {}

\* C5: an item whose grant has an excluded supplier never gets a task-history
\* fetch nor a task creation, and is not failed: it ends completed.
C5_ExcludedSupplierSkipped ==
    \A i \in DOMAIN queue :
        (\E l \in get_excel_mapping.IrrelevanteLeverandoerer :
            HarSvar(i, "hent_indsats_elementer", l))
        => /\ ~HarKald(i, "hent_opgave_historik")
           /\ ~HarKald(i, "opret_opgave")
           /\ OpgaverFor(i) = {}
           /\ queue[i].status # "failed"
           /\ (i # cur => queue[i].status = "completed")

C5_Witness ==
    \E i \in DOMAIN queue :
        /\ HarSvar(i, "hent_indsats_elementer", "Udelukket A/S")
        /\ queue[i].status = "completed"
        /\ OpgaverFor(i) = {}

\* C6: the tasks this process created that are still live (Aktiv) never include
\* two for the same grant and the same change time of the grant.
C6_OneLiveTaskPerChange ==
    \A a, b \in DOMAIN nexusOpgaver :
        ( /\ a # b
          /\ nexusOpgaver[a].workflowState = Aktiv
          /\ nexusOpgaver[b].workflowState = Aktiv
          /\ nexusOpgaver[a].objekt = nexusOpgaver[b].objekt )
        => queue[nexusOpgaver[a].item].data.sidste_aendring
             # queue[nexusOpgaver[b].item].data.sidste_aendring

\* C6's case: two items for the same grant and change time are both done, the
\* first got a task that is still live, the second was suppressed
C6_Witness ==
    \E i, j \in DOMAIN queue :
        /\ i < j
        /\ queue[i].data = queue[j].data
        /\ queue[i].status = "completed"
        /\ queue[j].status = "completed"
        /\ \E k \in OpgaverFor(i) : nexusOpgaver[k].workflowState = Aktiv
        /\ HarKald(j, "hent_opgave_historik")
        /\ OpgaverFor(j) = {}

\* C7: when the history is fetched and no sentinel-type task in it is strictly
\* later than the item's change or in state Aktiv, exactly one task is created
\* with the fixed type and organisation, start = due = today and no responsible
\* individual, and one tracking event is recorded.
C7_CreatesExactlyOneTask ==
    ( /\ pc = "exit"
      /\ HarKald(cur, "hent_opgave_historik")
      /\ \A k \in DOMAIN Historik :
            Sentinel(Historik[k]) =>
                /\ Instant(Historik[k].lastStateChangeDate) <= ItemInstant(item_data)
                /\ Historik[k].workflowState.name # Aktiv )
    => /\ Cardinality(OpgaverFor(cur)) = 1
       /\ Cardinality(SporingFor(cur)) = 1
       /\ \A k \in OpgaverFor(cur) :
            /\ nexusOpgaver[k].objekt = indsats[1].id
            /\ nexusOpgaver[k].opgave_type = OpgaveType
            /\ nexusOpgaver[k].ansvarlig_organisation = AnsvarligOrganisation
            /\ nexusOpgaver[k].start_dato = Dage[idag]
            /\ nexusOpgaver[k].forfald_dato = Dage[idag]
            /\ nexusOpgaver[k].ansvarlig_medarbejder = None

\* C8: a task timestamp and the item's timestamp that denote the same instant
\* are equal after the normalisation opret_opgave applies: neither is judged
\* strictly after the other.
C8_SameInstantComparesEqual ==
    Afgjort =>
        \A k \in DOMAIN Historik :
            Instant(Historik[k].lastStateChangeDate) = ItemInstant(item_data)
            => /\ ~dt_gt(opgave_aendring(Historik[k]), indsats_aendring(item_data))
               /\ ~dt_gt(indsats_aendring(item_data), opgave_aendring(Historik[k]))

\* C9: an item with a soft outcome (citizen not found, grant reference not
\* found, no field values, excluded supplier, suppressed by the history) is
\* never failed, ends completed, and has no task and no tracking event.
SoftOutcome(i) ==
    \/ HarSvar(i, "hent_borger", "None")
    \/ HarSvar(i, "hent_referencer", "None")
    \/ HarSvar(i, "hent_indsats_elementer", "None")
    \/ \E l \in get_excel_mapping.IrrelevanteLeverandoerer :
          HarSvar(i, "hent_indsats_elementer", l)
    \/ HarKald(i, "hent_opgave_historik") /\ ~HarKald(i, "opret_opgave")

C9_SoftOutcomeCompletes ==
    \A i \in DOMAIN queue :
        SoftOutcome(i) =>
            /\ queue[i].status # "failed"
            /\ (i # cur => queue[i].status = "completed")
            /\ OpgaverFor(i) = {}
            /\ SporingFor(i) = {}

\* C9's case: one finished item whose citizen was not found and one that the
\* fetched history suppressed, both completed
C9_Witness ==
    \E i, j \in DOMAIN queue :
        /\ i # j
        /\ HarSvar(i, "hent_borger", "None")
        /\ queue[i].status = "completed"
        /\ HarKald(j, "hent_opgave_historik") /\ ~HarKald(j, "opret_opgave")
        /\ queue[j].status = "completed"

\* C10: after populate_queue the queue holds, behind the items it had, exactly
\* one item per row the database returned, in order, each with the grant id as
\* its reference (so the same grant row twice gives two items alike).
C10_OneItemPerRow ==
    resultat = "exit(0)" =>
        LET rows == db[1] \o db[2]
            old  == Len(queue) - Len(rows)
        IN  /\ old >= 0
            /\ \A k \in 1..old : queue[k].status # "new"
            /\ \A k \in DOMAIN rows :
                  /\ queue[old + k].reference = ToString(rows[k].id)
                  /\ queue[old + k].data.indsats_id = rows[k].id
                  /\ queue[old + k].data.cpr = rows[k].business_key
                  /\ queue[old + k].data.indsats_navn = rows[k].name
                  /\ queue[old + k].status = "new"

\* C10's case: a grant populated, processed and populated again is in the
\* queue twice under the same reference
C10_Witness ==
    /\ resultat = "exit(0)"
    /\ \E i, j \in DOMAIN queue :
          /\ i < j
          /\ queue[i].status = "completed"
          /\ queue[j].status = "new"
          /\ queue[i].reference = queue[j].reference
          /\ queue[i].data = queue[j].data

\* ------------------------------------------------------------------ C11
HarQueueFlag(args) == \E k \in DOMAIN args : args[k] = "--queue"

\* the items that are not "new", in queue order
IkkeNye(wq) == SelectSeq(wq, LAMBDA it : it.status # "new")

AntalRaekker(rows) == Len(rows[1]) + Len(rows[2])

\* a step keeps every item's place, data and reference
SammeItems ==
    /\ Len(queue') = Len(queue)
    /\ \A i \in DOMAIN queue :
         /\ queue'[i].data = queue[i].data
         /\ queue'[i].reference = queue[i].reference

\* a step of the program that begins an invocation (a caseworker's step
\* is the only other one taken while no invocation runs)
Invocation == pc = "idle" /\ nexusOpgaver' = nexusOpgaver

\* C11: an invocation with --queue removes the "new" items, appends one
\* "new" item per fetched row, and ends with exit(0) with no item taken
\* up, no task created and no tracking event; an invocation without the
\* flag, and every step of it, keeps the queue's items in place with
\* their data (it neither clears nor adds).
C11_PopulatorOrProcessor ==
    [][ /\ (Invocation /\ HarQueueFlag(argv')) =>
             /\ pc' = "idle"
             /\ resultat' = "exit(0)"
             /\ cur' = 0
             /\ Len(queue') = Len(IkkeNye(queue)) + AntalRaekker(db')
             /\ SubSeq(queue', 1, Len(IkkeNye(queue))) = IkkeNye(queue)
             /\ \A i \in (Len(IkkeNye(queue)) + 1)..Len(queue') :
                  queue'[i].status = "new" /\ kald'[i] = <<>>
             /\ sporing' = sporing
        /\ HarQueueFlag(argv') => pc' = "idle"
        /\ ~HarQueueFlag(argv') => SammeItems ]_vars

\* a --queue invocation has ended, leaving an item an earlier processor
\* run completed next to a new item that no one took up
C11_Witness ==
    /\ HarQueueFlag(argv)
    /\ resultat = "exit(0)"
    /\ pc = "idle"
    /\ \E i, j \in DOMAIN queue :
         /\ queue[i].status = "completed"
         /\ queue[j].status = "new"
         /\ kald[j] = <<>>
    /\ nexusOpgaver # <<>>

\* ------------------------------------------------------------------ C12
\* C12: an invocation whose startup finds the rule file missing, the rule
\* file unloadable or one of the five credentials unresolved ends there:
\* the queue keeps every item with its status (nothing cleared, nothing
\* added, nothing taken up), no remote call is logged, and no task or
\* tracking event is made.  (pc = "idle" picks the invocation's own step;
\* a caseworker may still close a task afterwards.)
C12_StartupFailureIsFatal ==
    [][ (pc = "idle" /\ fejl' \in Fejlkilder) =>
            /\ pc' = "fejlet"
            /\ resultat' \notin {"exit(0)", "running", "drained", "returned", "raised"}
            /\ queue' = queue
            /\ kald' = kald
            /\ nexusOpgaver' = nexusOpgaver
            /\ sporing' = sporing ]_vars

\* a --queue invocation died on the last credential and the "new" item of
\* an earlier population is still in the queue, untouched
C12_Witness ==
    /\ fejl = "RoboA"
    /\ HarQueueFlag(argv)
    /\ pc = "fejlet"
    /\ resultat = "get_credential failed"
    /\ \E i \in DOMAIN queue : queue[i].status = "new" /\ kald[i] = <<>>

\* ------------------------------------------------------------------ C13
\* C13: when the item's step ends with a WorkItemError, the program's next
\* step marks the item failed with the error's message and goes back to
\* the loop head with the run still going; and an item that is failed is
\* failed after every later step (it is never completed).
C13_WorkItemErrorFailsItemOnly ==
    [][ /\ (pc = "exit" /\ pc' # pc /\ exc # None /\ exc[1].type = "WorkItemError") =>
             /\ queue'[cur].status = "failed"
             /\ queue'[cur].message = exc[1].msg
             /\ pc' = "iter"
             /\ resultat' = "running"
             /\ \A i \in DOMAIN queue \ {cur} : queue'[i] = queue[i]
        /\ \A i \in DOMAIN queue :
             queue[i].status = "failed" =>
                 i \in DOMAIN queue' /\ queue'[i].status = "failed" ]_vars

\* an item failed on a WorkItemError with the error's message, and the
\* loop has taken up the item after it
C13_Witness ==
    /\ cur > 1
    /\ pc = "hent_indsats"
    /\ queue[cur].status = "in progress"
    /\ queue[cur - 1].status = "failed"
    /\ queue[cur - 1].message = WorkItemErrorTekst
    /\ \E k \in DOMAIN kald[cur - 1] : kald[cur - 1][k].svar = "WorkItemError"

\* ------------------------------------------------------------------ C14
\* C14: when opret_opgave has worked through a history that holds no task
\* of the type "Indsatser til oekonomi - voksne" (whatever the state and
\* change time of its tasks), it has asked for exactly one new task, of
\* that type, on the item's grant.
C14_OnlySentinelSuppresses ==
    ( /\ Afgjort
      /\ \A k \in DOMAIN Historik : ~Sentinel(Historik[k]) )
    => /\ HarKald(cur, "opret_opgave")
       /\ Cardinality(OpgaverFor(cur)) = 1
       /\ \A k \in OpgaverFor(cur) :
            /\ nexusOpgaver[k].opgave_type = OpgaveType
            /\ nexusOpgaver[k].objekt = item_data.indsats_id

\* a history of one task of another type, Aktiv and changed after the
\* item's change time on the clock and in time; the task was created
C14_Witness ==
    /\ Afgjort
    /\ Len(Historik) = 1
    /\ ~Sentinel(Historik[1])
    /\ Historik[1].workflowState.name = Aktiv
    /\ Historik[1].lastStateChangeDate.wall > item_data.sidste_aendring.tekst
    /\ Instant(Historik[1].lastStateChangeDate) > ItemInstant(item_data)
    /\ OpgaverFor(cur) # {}

\* ------------------------------------------------------------------ C15
\* a step of a --queue invocation: taken while no processor runs, ending
\* with none running, and changing what main and populate_queue write
PopulatorRun ==
    /\ pc = "idle"
    /\ pc' = "idle"
    /\ <<queue, db, resultat, argv>>' # <<queue, db, resultat, argv>>

\* C15: a Populator run creates no task, records no tracking event and
\* changes no task in Nexus; the items that were in the queue when
\* populate_queue began (those main's clear left: the ones not "new") keep
\* their place, content, status and call log, and everything after them
\* is a newly added item.
C15_PopulateOnlyAdds ==
    [][ PopulatorRun =>
            /\ nexusOpgaver' = nexusOpgaver
            /\ sporing' = sporing
            /\ Len(queue') >= Len(IkkeNye(queue))
            /\ \A i \in 1..Len(IkkeNye(queue)) :
                 /\ queue'[i] = IkkeNye(queue)[i]
                 /\ kald'[i] = kald[i]
            /\ \A i \in (Len(IkkeNye(queue)) + 1)..Len(queue') :
                 /\ queue'[i].status = "new"
                 /\ \E o \in DOMAIN db' : \E k \in DOMAIN db'[o] :
                      queue'[i] = add_item(db'[o][k]) ]_vars

\* after a Populator run: the item an earlier run completed is there with
\* its call log, its task and its tracking event, followed by the one item
\* the run added for the one row it fetched
C15_Witness ==
    /\ pc = "idle"
    /\ resultat = "exit(0)"
    /\ AntalRaekker(db) = 1
    /\ Len(queue) = 2
    /\ queue[1].status = "completed"
    /\ HarKald(1, "opret_opgave")
    /\ OpgaverFor(1) # {}
    /\ SporingFor(1) # {}
    /\ \E o \in DOMAIN db : \E k \in DOMAIN db[o] : queue[2] = add_item(db[o][k])

\* ------------------------------------------------------------------ C16
Faerdig(i) == queue[i].status \in {"completed", "failed"}

\* the four outcomes, each told from what the item's calls answered and
\* from what the item left behind
Skip(i) ==
    /\ queue[i].status = "completed"
    /\ \/ HarSvar(i, "hent_borger", "None")
       \/ HarSvar(i, "hent_referencer", "None")
       \/ HarSvar(i, "hent_indsats_elementer", "None")
       \/ \E l \in get_excel_mapping.IrrelevanteLeverandoerer :
             HarSvar(i, "hent_indsats_elementer", l)

HardError(i) ==
    /\ queue[i].status = "failed"
    /\ \/ HarSvar(i, "hent_visning", "None")
       \/ \E k \in DOMAIN kald[i] : kald[i][k].svar = "WorkItemError"

DedupSuppressed(i) ==
    /\ queue[i].status = "completed"
    /\ HarSvar(i, "hent_opgave_historik", "fundet")
    /\ OpgaverFor(i) = {}

TaskCreated(i) ==
    /\ queue[i].status = "completed"
    /\ HarSvar(i, "opret_opgave", "oprettet")
    /\ OpgaverFor(i) # {}

Outcomes(i) ==
    {o \in {"skip", "hard-error", "dedup-suppressed", "task-created"} :
        \/ o = "skip" /\ Skip(i)
        \/ o = "hard-error" /\ HardError(i)
        \/ o = "dedup-suppressed" /\ DedupSuppressed(i)
        \/ o = "task-created" /\ TaskCreated(i)}

OpretKald(i) == {k \in DOMAIN kald[i] : kald[i][k].kald = "opret_opgave"}

IArbejde == {i \in DOMAIN queue : queue[i].status = "in progress"}

\* C16: an item the Processor has finished has exactly one of the four
\* outcomes; no item has more than one task-creation call or more than
\* one task; at most one item is in progress at a time, it is the current
\* one, and a step adds calls to the log of the current item only.  (Said
\* of the state every step leads to; the first state has no item.)
C16_OneOutcomeOneItemAtATime ==
    [][ /\ \A i \in DOMAIN queue' :
             /\ Faerdig(i)' => Cardinality(Outcomes(i)') = 1
             /\ Cardinality(OpretKald(i)') <= 1
             /\ Cardinality(OpgaverFor(i)') <= 1
        /\ Cardinality(IArbejde') <= 1
        /\ IArbejde' \subseteq {cur'}
        /\ pc # "idle" =>
              \A i \in DOMAIN kald :
                  kald'[i] # kald[i] => (i = cur /\ queue[i].status = "in progress") ]_vars

\* a run has ended with one item that got its task and one that failed on
\* the missing pathway
C16_Witness ==
    /\ RunEnded
    /\ Len(queue) = 2
    /\ Outcomes(1) = {"task-created"}
    /\ Outcomes(2) = {"hard-error"}
    /\ HarSvar(2, "hent_visning", "None")

\* ------------------------------------------------------------------ C17
\* C17: at every point of a run there are no more tracking events than
\* created tasks, in all and for each item; every tracking event belongs to
\* an item whose creation call has answered and whose task exists; an
\* item whose creation call raised has none; and whenever no item is being
\* worked on the two counts are equal.
C17_TrackingFollowsCreation ==
    /\ Len(sporing) <= Len(nexusOpgaver)
    /\ \A i \in DOMAIN queue : Cardinality(SporingFor(i)) <= Cardinality(OpgaverFor(i))
    /\ \A k \in DOMAIN sporing :
         /\ sporing[k].item \in DOMAIN queue
         /\ HarSvar(sporing[k].item, "opret_opgave", "oprettet")
         /\ OpgaverFor(sporing[k].item) # {}
    /\ \A i \in DOMAIN queue :
         HarSvar(i, "opret_opgave", "WorkItemError") => SporingFor(i) = {}
    /\ pc \in {"iter", "idle"} => Len(sporing) = Len(nexusOpgaver)

\* the second task of a run has been created and is not yet tracked, the
\* first one is
C17_Witness ==
    /\ pc = "track"
    /\ cur = 2
    /\ Len(nexusOpgaver) = 2
    /\ Len(sporing) = 1
    /\ sporing[1].item = 1
    /\ nexusOpgaver[2].item = 2

====
